---- MODULE Spec2Model ----
(***************************************************************************)
(* TriageLink: the wait-time parsers, the hospital-name resolver, the      *)
(* historical loader, the feature stages and the master-dataset assembly   *)
(* of Week2DataCleaningPipeline.py and Week3_feature_engineering.py.       *)
(*                                                                         *)
(* Conventions of the model                                                *)
(*  - a Python str is a sequence of one-character strings;                 *)
(*  - an optional value (None / NaN / NaT / a null cell) is the empty      *)
(*    sequence None, a present value v is the one-element sequence <<v>>;  *)
(*  - a minutes value is held as an exact count of HALF minutes, so that   *)
(*    the float (a + b) / 2 of a range is exact: 64.5 min is held as 129;  *)
(*  - a mean, median or quantile is an exact fraction <<num, den>> of      *)
(*    half minutes in lowest terms.                                        *)
(***************************************************************************)
EXTENDS Integers, Sequences, FiniteSets, TLC

VARIABLES
    \* the two parsers
    wait_time_str,      \* the argument of parse_wait_time / _parse_wait_time
    parsed,             \* which of the two parsers have returned
    cleaner_minutes,    \* what TriageLinkDataCleaner.parse_wait_time returned
    engineer_minutes,   \* what TriageLinkFeatureEngineer._parse_wait_time returned
    \* the hospital-name resolver
    hospital_mapping,   \* self.hospital_mapping: the rows of the mapping table
    raw_name,           \* the raw_name argument of the last normalize_hospital_name call
    source,             \* its source argument
    normalized,         \* what it returned: None before the first call
    \* load_historical_data
    migueldata_dir,     \* the directory: file name -> the chunks of its content
    json_files,         \* the sorted list of the names that end in '.json'
    file_i,             \* the index in json_files of the file being read
    chunk_i,            \* the index of the next chunk of that file
    all_records,        \* the observations appended so far
    load_pc,            \* "start", "reading", "done", or "raised"
    historical_df,      \* self.historical_df: the rows of the frame
    \* create_master_dataset
    wait_time_file,     \* the rows of the wait-time Excel file
    missing_strategy,   \* the missing_strategy argument
    df_master,          \* the frame df as it passes from step to step
    master_pc,          \* the last step that returned
    \* run_full_pipeline
    feat_pc             \* the last stage that returned: "loaded", "rolling",
                        \* "trends", "benchmarks" or "temporal"

parseVars == <<wait_time_str, parsed, cleaner_minutes, engineer_minutes>>
resolveVars == <<raw_name, source, normalized>>
loadVars == <<migueldata_dir, json_files, file_i, chunk_i, all_records, load_pc>>
masterVars == <<wait_time_file, missing_strategy, df_master, master_pc>>

vars == <<parseVars, hospital_mapping, resolveVars, loadVars, historical_df, feat_pc,
          masterVars>>

\* what the actions of one component leave alone
RestOfParse == <<hospital_mapping, resolveVars, loadVars, historical_df, feat_pc, masterVars>>
RestOfResolve == <<parseVars, loadVars, historical_df, feat_pc, masterVars>>
RestOfLoad == <<parseVars, hospital_mapping, resolveVars, feat_pc, masterVars>>
RestOfFeatures == <<parseVars, hospital_mapping, resolveVars, loadVars, masterVars>>
RestOfMaster == <<parseVars, hospital_mapping, resolveVars, loadVars, historical_df, feat_pc>>

-----------------------------------------------------------------------------
(* Optional values *)

None == <<>>
Some(v) == <<v>>
IsNone(x) == x = <<>>
Val(x) == x[1]

-----------------------------------------------------------------------------
(* Python str operations, on sequences of characters *)

Digit == {"0", "1", "2", "3", "4", "5", "6", "7", "8", "9"}

\* the characters \s matches among those the inputs use
Whitespace == {" "}

DigitVal(c) ==
    CASE c = "0" -> 0 [] c = "1" -> 1 [] c = "2" -> 2 [] c = "3" -> 3
      [] c = "4" -> 4 [] c = "5" -> 5 [] c = "6" -> 6 [] c = "7" -> 7
      [] c = "8" -> 8 [] c = "9" -> 9

DigitChar(d) ==
    CASE d = 0 -> "0" [] d = 1 -> "1" [] d = 2 -> "2" [] d = 3 -> "3"
      [] d = 4 -> "4" [] d = 5 -> "5" [] d = 6 -> "6" [] d = 7 -> "7"
      [] d = 8 -> "8" [] d = 9 -> "9"

\* str(n) of a non-negative int: its decimal digits
RECURSIVE Str(_)
Str(n) == IF n < 10 THEN <<DigitChar(n)>> ELSE Str(n \div 10) \o <<DigitChar(n % 10)>>

\* int(ds) of a run of decimal digits
RECURSIVE IntOf(_)
IntOf(ds) ==
    IF Len(ds) = 0 THEN 0
    ELSE 10 * IntOf(SubSeq(ds, 1, Len(ds) - 1)) + DigitVal(ds[Len(ds)])

\* str.lower() on one character
LowerChar(c) ==
    CASE c = "A" -> "a" [] c = "B" -> "b" [] c = "C" -> "c" [] c = "D" -> "d"
      [] c = "E" -> "e" [] c = "F" -> "f" [] c = "G" -> "g" [] c = "H" -> "h"
      [] c = "I" -> "i" [] c = "J" -> "j" [] c = "K" -> "k" [] c = "L" -> "l"
      [] c = "M" -> "m" [] c = "N" -> "n" [] c = "O" -> "o" [] c = "P" -> "p"
      [] c = "Q" -> "q" [] c = "R" -> "r" [] c = "S" -> "s" [] c = "T" -> "t"
      [] c = "U" -> "u" [] c = "V" -> "v" [] c = "W" -> "w" [] c = "X" -> "x"
      [] c = "Y" -> "y" [] c = "Z" -> "z" [] OTHER -> c

\* str.lower()
Lower(s) == [i \in 1..Len(s) |-> LowerChar(s[i])]

\* s[i:].startswith(p), i counted from 1
StartsWithAt(s, p, i) ==
    /\ i >= 1
    /\ i + Len(p) - 1 <= Len(s)
    /\ \A k \in 1..Len(p) : s[i + k - 1] = p[k]

\* p in s
Contains(s, p) == \E i \in 1..(Len(s) - Len(p) + 1) : StartsWithAt(s, p, i)

\* s.find(p): the first index where p occurs, 0 when it does not
Find(s, p) ==
    LET hits == {i \in 1..(Len(s) - Len(p) + 1) : StartsWithAt(s, p, i)}
    IN  IF hits = {} THEN 0 ELSE CHOOSE i \in hits : \A j \in hits : i <= j

\* s.split(sep), sep not empty: the pieces between the occurrences of sep,
\* found left to right without overlap
RECURSIVE Split(_, _)
Split(s, sep) ==
    LET i == Find(s, sep)
    IN  IF i = 0 THEN <<s>>
        ELSE <<SubSeq(s, 1, i - 1)>> \o Split(SubSeq(s, i + Len(sep), Len(s)), sep)

\* s.replace(old, new), old not empty: every occurrence, left to right
RECURSIVE Replace(_, _, _)
Replace(s, old, new) ==
    LET i == Find(s, old)
    IN  IF i = 0 THEN s
        ELSE SubSeq(s, 1, i - 1) \o new
                 \o Replace(SubSeq(s, i + Len(old), Len(s)), old, new)

\* the end (exclusive) of the run of characters of class cls that starts at i
RECURSIVE RunEnd(_, _, _)
RunEnd(s, cls, i) ==
    IF i <= Len(s) /\ s[i] \in cls THEN RunEnd(s, cls, i + 1) ELSE i

\* whether (\d+)\s*<unit> matches at i: a maximal run of digits, then any
\* whitespace, then the unit; neither run can give characters back, since
\* what follows it begins with a character outside its class
ReMatchAt(s, unit, i) ==
    /\ s[i] \in Digit
    /\ StartsWithAt(s, unit, RunEnd(s, Whitespace, RunEnd(s, Digit, i)))

\* the same search with (\d) for (\d+): one digit is captured
ReSearchOneDigit(s, unit) ==
    LET hits == {i \in 1..Len(s) : s[i] \in Digit /\ StartsWithAt(s, unit, RunEnd(s, Whitespace, i + 1))}
    IN  IF hits = {} THEN None
        ELSE LET i == CHOOSE h \in hits : \A j \in hits : h <= j
             IN  Some(DigitVal(s[i]))

\* re.search(r'(\d+)\s*<unit>', s), then int(match.group(1)):
\* the leftmost match, None when there is none
ReSearchInt(s, unit) ==
    LET hits == {i \in 1..Len(s) : ReMatchAt(s, unit, i)}
    IN  IF hits = {} THEN None
        ELSE LET i == CHOOSE h \in hits : \A j \in hits : h <= j
             IN  Some(IntOf(SubSeq(s, i, RunEnd(s, Digit, i) - 1)))

-----------------------------------------------------------------------------
(* String literals of the source *)

HR == <<"h", "r">>
MIN == <<"m", "i", "n">>
TO == <<"t", "o">>
SP == <<" ">>
SP_TO == <<" ", "t", "o">>
SP_TO_SP == <<" ", "t", "o", " ">>
NOT_AVAILABLE == <<"N", "o", "t", " ", "a", "v", "a", "i", "l", "a", "b", "l", "e">>

-----------------------------------------------------------------------------
(* Minutes, as half minutes *)

\* an int number of minutes
Minutes(v) == 2 * v

\* (a + b) / 2 of two minute values a, b: Python's true division, a float
MeanFloorDiv(a, b) == 2 * (((a \div 2) + (b \div 2)) \div 2)
MeanOfTwo(a, b) == (a + b) \div 2

-----------------------------------------------------------------------------
(* TriageLinkDataCleaner._extract_minutes and                              *)
(* TriageLinkFeatureEngineer._extract_minutes: the same text twice         *)

ExtractMinutesKeepZero(time_str) ==
    LET hr_match == ReSearchInt(time_str, HR)
        min_match == ReSearchInt(time_str, MIN)
        hours == IF IsNone(hr_match) THEN 0 ELSE Val(hr_match)
        minutes == IF IsNone(min_match) THEN 0 ELSE Val(min_match)
    IN  Some(Minutes((hours * 60) + minutes))

ExtractMinutes(time_str) ==
    LET hr_match == ReSearchInt(time_str, HR)
        min_match == ReSearchInt(time_str, MIN)
        hours == IF IsNone(hr_match) THEN 0 ELSE Val(hr_match)
        minutes == IF IsNone(min_match) THEN 0 ELSE Val(min_match)
        total_minutes == (hours * 60) + minutes
    IN  IF total_minutes > 0 THEN Some(Minutes(total_minutes)) ELSE None

\* the range branch of both parsers, from the split parts
RangeMeanFloor(parts) ==
    LET min_time == ExtractMinutes(parts[1])
        max_time == ExtractMinutes(parts[2])
    IN  IF ~IsNone(min_time) /\ ~IsNone(max_time)
        THEN Some(MeanFloorDiv(Val(min_time), Val(max_time)))
        ELSE None

RangeMean(parts) ==
    LET min_time == ExtractMinutes(parts[1])
        max_time == ExtractMinutes(parts[2])
    IN  IF ~IsNone(min_time) /\ ~IsNone(max_time)
        THEN Some(MeanOfTwo(Val(min_time), Val(max_time)))
        ELSE None

\* TriageLinkDataCleaner.parse_wait_time; the argument is None or Some(str)
ParseWaitTimeCleaner(arg) ==
    IF IsNone(arg) \/ Contains(Val(arg), NOT_AVAILABLE) THEN None
    ELSE LET s == Lower(Val(arg))
         IN  IF Contains(s, SP_TO_SP)
             THEN RangeMean(Split(s, SP_TO_SP))
             ELSE ExtractMinutes(s)

\* TriageLinkFeatureEngineer._parse_wait_time; nothing inside its try raises
\* on a str, so the except branch is never taken
ParseWaitTimeEngineer(arg) ==
    IF IsNone(arg) \/ Contains(Val(arg), NOT_AVAILABLE) THEN None
    ELSE LET s == Lower(Val(arg))
         IN  IF Contains(s, SP_TO) \/ Contains(s, SP_TO_SP)
             THEN RangeMean(Split(Replace(s, TO, SP_TO_SP), SP_TO_SP))
             ELSE ExtractMinutes(s)

-----------------------------------------------------------------------------
(* The wait-time texts the parsers are run on *)

MaxHours == 2
MaxMinutes == 11

\* '<n> hr <m> min'
Fmt(n, m) == Str(n) \o SP \o HR \o SP \o Str(m) \o SP \o MIN

OR_LESS == <<" ", "o", "r", " ", "l", "e", "s", "s">>
SOON == <<"s", "o", "o", "n">>

Durations == {Fmt(n, m) : n \in 0..MaxHours, m \in 0..MaxMinutes}

\* the sides of the ranges: durations that parse, the feed's '1 hr or less',
\* an hours-only and a minutes-only text, and three that do not parse
\* (a zero total, a word, the empty string); none holds a further separator
RangeSides ==
    {Fmt(1, 0), Fmt(1, 9), Fmt(2, 44), Fmt(0, 0)}
        \cup {Str(1) \o SP \o HR \o OR_LESS, Str(4) \o SP \o HR, Str(25) \o SP \o MIN,
              SOON, <<>>}

\* ' to ' as the feed writes it, in capitals, and with a space missing
Separators == {SP_TO_SP, <<" ", "T", "O", " ">>}
LooseSeparators == {SP_TO, <<"t", "o", " ">>}

Ranges == {a \o sep \o b : a \in RangeSides, b \in RangeSides, sep \in Separators}
LooseRanges ==
    {a \o sep \o b : a \in {Fmt(2, 44), Fmt(1, 0)}, b \in {Str(4) \o SP \o HR \o SP \o Str(25) \o SP \o MIN, SOON},
                     sep \in LooseSeparators}

\* the unavailable marker in three letter cases, alone and inside a longer text
Markers ==
    {NOT_AVAILABLE, Lower(NOT_AVAILABLE),
     <<"N", "O", "T", " ", "A", "V", "A", "I", "L", "A", "B", "L", "E">>}
MarkerTexts ==
    {pre \o mk \o post : pre \in {<<>>, Fmt(0, 5) \o SP}, mk \in Markers,
                         post \in {<<>>, SP \o Fmt(1, 5)}}

WaitTimeTexts == Durations \cup RangeSides \cup Ranges \cup LooseRanges \cup MarkerTexts

\* a cell of the 'Wait Time' column or a value of the feed: null or a str
WaitTimeArgs == {None} \cup {Some(s) : s \in WaitTimeTexts}

-----------------------------------------------------------------------------
(* The parsers' specification: one text, parsed by each parser once *)

IdleParse ==
    /\ wait_time_str = None
    /\ parsed = {}
    /\ cleaner_minutes = None
    /\ engineer_minutes = None

IdleResolve ==
    /\ raw_name = None
    /\ source = "hlwiw"
    /\ normalized = None

IdleLoad ==
    /\ migueldata_dir = <<>>
    /\ json_files = <<>>
    /\ file_i = 1
    /\ chunk_i = 1
    /\ all_records = <<>>
    /\ load_pc = "start"

IdleMaster ==
    /\ wait_time_file = <<>>
    /\ missing_strategy = "flag"
    /\ df_master = <<>>
    /\ master_pc = "start"

InitParse ==
    /\ wait_time_str \in WaitTimeArgs
    /\ parsed = {}
    /\ cleaner_minutes = None
    /\ engineer_minutes = None
    /\ hospital_mapping = <<>>
    /\ IdleResolve
    /\ IdleLoad
    /\ historical_df = <<>>
    /\ feat_pc = "loaded"
    /\ IdleMaster

\* TriageLinkDataCleaner.parse_wait_time(wait_time_str)
parse_wait_time ==
    /\ "cleaner" \notin parsed
    /\ cleaner_minutes' = ParseWaitTimeCleaner(wait_time_str)
    /\ parsed' = parsed \cup {"cleaner"}
    /\ UNCHANGED <<wait_time_str, engineer_minutes, RestOfParse>>

\* TriageLinkFeatureEngineer._parse_wait_time(wait_time_str)
_parse_wait_time ==
    /\ "engineer" \notin parsed
    /\ engineer_minutes' = ParseWaitTimeEngineer(wait_time_str)
    /\ parsed' = parsed \cup {"engineer"}
    /\ UNCHANGED <<wait_time_str, cleaner_minutes, RestOfParse>>

NextParse == parse_wait_time \/ _parse_wait_time

SpecParse == InitParse /\ [][NextParse]_vars

BothParsed == parsed = {"cleaner", "engineer"}

\* C1 (as amended): for every text '<n> hr <m> min' both parsers return
\* exactly 60n + m when 60n + m > 0, and None for '0 hr 0 min'.
C1_DurationTotal ==
    \A n \in 0..MaxHours, m \in 0..MaxMinutes :
        wait_time_str = Some(Fmt(n, m)) =>
            LET expected == IF 60 * n + m > 0 THEN Some(Minutes(60 * n + m)) ELSE None
            IN  /\ "cleaner" \in parsed => cleaner_minutes = expected
                /\ "engineer" \in parsed => engineer_minutes = expected

\* C1 as first stated: for every text '<n> hr <m> min', n and m non-negative,
\* both parsers return exactly 60n + m.
C1_AsStated ==
    \A n \in 0..MaxHours, m \in 0..MaxMinutes :
        wait_time_str = Some(Fmt(n, m)) =>
            /\ "cleaner" \in parsed => cleaner_minutes = Some(Minutes(60 * n + m))
            /\ "engineer" \in parsed => engineer_minutes = Some(Minutes(60 * n + m))

\* '2 hr 11 min' has been parsed by both parsers, to 131 minutes
C1_Witness ==
    /\ wait_time_str = Some(Fmt(2, 11))
    /\ BothParsed
    /\ cleaner_minutes = Some(Minutes(131))
    /\ engineer_minutes = Some(Minutes(131))

\* what the range rule asks of 'A to B', from what the parser makes of each side
RangeExpected(pa, pb) ==
    IF ~IsNone(pa) /\ ~IsNone(pb) THEN Some((Val(pa) + Val(pb)) \div 2) ELSE None

C2_WitnessNone ==
    /\ wait_time_str = Some(SOON \o SP_TO_SP \o Fmt(1, 9))
    /\ BothParsed
    /\ cleaner_minutes = None

\* whether the text holds 'Not available' in some letter case
HasMarkerAnyCase(s) == Contains(Lower(s), Lower(NOT_AVAILABLE))

\* C3: for a null input and for every text that holds 'Not available' in any
\* letter case, whatever else it holds, both parsers return None.
C3_MarkerIsNone ==
    (IsNone(wait_time_str) \/ HasMarkerAnyCase(Val(wait_time_str))) =>
        /\ "cleaner" \in parsed => cleaner_minutes = None
        /\ "engineer" \in parsed => engineer_minutes = None

-----------------------------------------------------------------------------
(* The hospital mapping table and TriageLinkDataCleaner.normalize_hospital_name *)

MaxMappingRows == 2

\* the names the sources use; a hospital a source does not list has a null cell
ST_X == "St. X"
GEN_Y == "Gen Y"
UNKNOWN_CLINIC == "Unknown Clinic"

StandardName(id) == IF id = 1 THEN "Hospital 1" ELSE IF id = 2 THEN "Hospital 2" ELSE "Hospital 3+"

\* the row of hospital id: hospital_id is unique (the row's position), the
\* three source columns hold a name or a null cell, and a name may repeat
\* down a column
MappingRows(id) ==
    [hospital_id : {id},
     er_watch_name : {None, Some(ST_X)},
     hlwiw_name : {None, Some(ST_X), Some(GEN_Y)},
     pediatric_dataset_name : {None, Some(GEN_Y)},
     standard_name : {StandardName(id)},
     region : {IF id = 1 THEN Some("Calgary") ELSE Some("Edmonton")},
     has_pediatric_er : {id = 1},
     is_trauma_centre : {id # 1},
     tier : {IF id = 1 THEN Some(1) ELSE None}]

\* pd.read_csv(hospital_mapping_file): the tables of up to MaxMappingRows rows
MappingTables ==
    UNION {{t \in [1..n -> UNION {MappingRows(id) : id \in 1..n}] :
               \A i \in 1..n : t[i].hospital_id = i} : n \in 0..MaxMappingRows}

\* column_mapping.get(source, 'hlwiw_name')
SourceColumn(src) ==
    CASE src = "er_watch" -> "er_watch_name"
      [] src = "hlwiw" -> "hlwiw_name"
      [] src = "pediatric" -> "pediatric_dataset_name"
      [] OTHER -> "hlwiw_name"

\* the same lookup returning the last matching row
NormalizeLastMatch(mapping, raw, src) ==
    IF IsNone(raw) THEN <<None, None>>
    ELSE LET source_column == SourceColumn(src)
             match == SelectSeq(mapping, LAMBDA row : row[source_column] = raw)
         IN  IF Len(match) > 0
             THEN <<Some(match[Len(match)].hospital_id), Some(match[Len(match)].standard_name)>>
             ELSE <<None, raw>>

\* normalize_hospital_name(raw_name, source): (hospital_id, standard_name);
\* a null cell never equals a name (NaN == raw_name is False)
NormalizeHospitalName(mapping, raw, src) ==
    IF IsNone(raw) THEN <<None, None>>
    ELSE LET source_column == SourceColumn(src)
             match == SelectSeq(mapping, LAMBDA row : row[source_column] = raw)
         IN  IF Len(match) > 0
             THEN <<Some(match[1].hospital_id), Some(match[1].standard_name)>>
             ELSE <<None, raw>>

RawNames == {None, Some(ST_X), Some(GEN_Y), Some(UNKNOWN_CLINIC)}
Sources == {"er_watch", "hlwiw", "pediatric", "other"}

InitResolve ==
    /\ hospital_mapping \in MappingTables
    /\ IdleResolve
    /\ IdleParse
    /\ IdleLoad
    /\ historical_df = <<>>
    /\ feat_pc = "loaded"
    /\ IdleMaster

\* one call normalize_hospital_name(raw, src) on the loaded table
normalize_hospital_name ==
    \E raw \in RawNames, src \in Sources :
        /\ raw_name' = raw
        /\ source' = src
        /\ normalized' = Some(NormalizeHospitalName(hospital_mapping, raw, src))
        /\ UNCHANGED <<hospital_mapping, RestOfResolve>>

NextResolve == normalize_hospital_name

SpecResolve == InitResolve /\ [][NextResolve]_vars

\* the rows of the table whose column for src holds exactly raw
MatchingRows(src, raw) ==
    {i \in 1..Len(hospital_mapping) :
        \/ src = "er_watch" /\ hospital_mapping[i].er_watch_name = raw
        \/ src = "hlwiw" /\ hospital_mapping[i].hlwiw_name = raw
        \/ src = "pediatric" /\ hospital_mapping[i].pediatric_dataset_name = raw}

\* what C4 says the last call returned
C4_ResultOfLastCall ==
    (~IsNone(normalized) /\ source \in {"er_watch", "hlwiw", "pediatric"}) =>
        IF IsNone(raw_name) THEN Val(normalized) = <<None, None>>
        ELSE IF MatchingRows(source, raw_name) = {} THEN Val(normalized) = <<None, raw_name>>
        ELSE LET first == CHOOSE i \in MatchingRows(source, raw_name) :
                              \A j \in MatchingRows(source, raw_name) : i <= j
             IN  Val(normalized) = <<Some(hospital_mapping[first].hospital_id),
                                    Some(hospital_mapping[first].standard_name)>>

\* C4: normalize_hospital_name returns (hospital_id, standard_name) of the
\* first row whose column for the source equals raw_name, (None, raw_name)
\* when no row matches and (None, None) for a null raw_name; a call leaves
\* the mapping table as it was, and a call with the arguments of the call
\* before it returns the same result.
C4_Resolver ==
    /\ [](C4_ResultOfLastCall)
    /\ [][/\ hospital_mapping' = hospital_mapping
          /\ (~IsNone(normalized) /\ raw_name' = raw_name /\ source' = source)
                 => normalized' = normalized]_vars

\* 'St. X' is in the hlwiw column of both rows and the call returned row 1
C4_Witness ==
    /\ Len(hospital_mapping) = 2
    /\ hospital_mapping[1].hlwiw_name = Some(ST_X)
    /\ hospital_mapping[2].hlwiw_name = Some(ST_X)
    /\ raw_name = Some(ST_X)
    /\ source = "hlwiw"
    /\ normalized = Some(<<Some(1), Some("Hospital 1")>>)

\* a name no row holds came back unresolved: (None, raw_name)
C4_WitnessUnknown ==
    /\ Len(hospital_mapping) = 2
    /\ raw_name = Some(UNKNOWN_CLINIC)
    /\ normalized = Some(<<None, Some(UNKNOWN_CLINIC)>>)

-----------------------------------------------------------------------------
(* Sequences and exact arithmetic *)

\* the concatenation of a sequence of sequences (pd.concat of frames)
RECURSIVE Flatten(_)
Flatten(ss) == IF Len(ss) = 0 THEN <<>> ELSE ss[1] \o Flatten(Tail(ss))

RECURSIVE SumSeq(_)
SumSeq(xs) == IF Len(xs) = 0 THEN 0 ELSE xs[1] + SumSeq(Tail(xs))

Abs(x) == IF x < 0 THEN -x ELSE x

RECURSIVE GCD(_, _)
GCD(a, b) == IF b = 0 THEN a ELSE GCD(b, a % b)

\* the fraction n / d, d > 0, in lowest terms
Rat(n, d) == LET g == GCD(Abs(n), d) IN <<n \div g, d \div g>>

RatLess(p, q) == p[1] * q[2] < q[1] * p[2]

\* xs in ascending order
RECURSIVE SortInts(_)
SortInts(xs) ==
    IF Len(xs) = 0 THEN <<>>
    ELSE LET rest == SortInts(Tail(xs))
             below == SelectSeq(rest, LAMBDA y : y < xs[1])
             others == SelectSeq(rest, LAMBDA y : ~(y < xs[1]))
         IN  below \o <<xs[1]>> \o others

-----------------------------------------------------------------------------
(* TriageLinkFeatureEngineer.load_historical_data *)

MaxFiles == 2
MaxChunks == 2

\* ord(c) of the characters of the file names
Ord(c) ==
    CASE c = "." -> 46
      [] c \in Digit -> 48 + DigitVal(c)
      [] c = "j" -> 106 [] c = "n" -> 110 [] c = "o" -> 111
      [] c = "s" -> 115 [] c = "t" -> 116 [] c = "x" -> 120

\* a < b on str: by the first character that differs, a proper prefix first
RECURSIVE StrLess(_, _)
StrLess(a, b) ==
    IF Len(b) = 0 THEN FALSE
    ELSE IF Len(a) = 0 THEN TRUE
    ELSE IF a[1] # b[1] THEN Ord(a[1]) < Ord(b[1])
    ELSE StrLess(Tail(a), Tail(b))

\* sorted(names) of a set of str
RECURSIVE Sorted(_)
Sorted(names) ==
    IF names = {} THEN <<>>
    ELSE LET least == CHOOSE a \in names : \A b \in names : a = b \/ StrLess(a, b)
         IN  <<least>> \o Sorted(names \ {least})

DOT_JSON == <<".", "j", "s", "o", "n">>
DOT_TXT == <<".", "t", "x", "t">>

\* f.endswith(suffix)
EndsWith(f, suffix) == StartsWithAt(f, suffix, Len(f) - Len(suffix) + 1)

\* the snapshot files '10.json' and '2.json', and a file that is no snapshot
JsonNames == {Str(10) \o DOT_JSON, Str(2) \o DOT_JSON}
OtherNames == {Str(3) \o DOT_TXT}

\* the value of "timestamp": a str pd.to_datetime parses to an instant (a
\* count of hours), or one it does not parse
TimestampValues == [parses : {TRUE}, instant : {0, 1}] \cup [parses : {FALSE}, instant : {0}]

\* the value of "data" when it is a mapping: (hospital name, wait time) in
\* key order
DataMappings ==
    {<<<<"A", Some(Fmt(1, 30))>>>>,
     <<<<"A", Some(NOT_AVAILABLE)>>, <<"B", Some(Fmt(2, 0))>>>>}

\* a chunk between two '}{' boundaries, by what json.loads and the two
\* subscripts make of it:
\*   "invalid_json"      json.loads raises
\*   "no_timestamp"      record['timestamp'] raises (no such key)
\*   "no_data"           record['data'] raises (no such key)
\*   "data_not_mapping"  record['data'].items() raises
\*   "object"            a timestamp and a data mapping are there
BadChunks ==
    [kind : {"invalid_json", "no_timestamp", "no_data", "data_not_mapping"},
     timestamp : {[parses |-> FALSE, instant |-> 0]}, data : {<<>>}]
ObjectChunks == [kind : {"object"}, timestamp : TimestampValues, data : DataMappings]
Chunks == BadChunks \cup ObjectChunks

\* content.replace('}{', '}\n{').split('\n') of a file of concatenated chunks
FileContents == UNION {[1..n -> Chunks] : n \in 0..MaxChunks}

\* os.listdir: up to MaxFiles snapshot files, with or without the other file
Directories ==
    UNION {{snapshots @@ others : snapshots \in [J -> FileContents], others \in [O -> {<<>>}]} :
              J \in {K \in SUBSET JsonNames : Cardinality(K) <= MaxFiles},
              O \in SUBSET OtherNames}

\* the records one chunk appends: the body of the try block
ChunkRecords(chunk) ==
    IF chunk.kind # "object" THEN <<>>
    ELSE [k \in 1..Len(chunk.data) |->
             [timestamp |-> chunk.timestamp,
              hospital_name |-> chunk.data[k][1],
              wait_time_str |-> chunk.data[k][2]]]

InitLoad ==
    /\ migueldata_dir \in Directories
    /\ json_files = <<>>
    /\ file_i = 1
    /\ chunk_i = 1
    /\ all_records = <<>>
    /\ load_pc = "start"
    /\ historical_df = <<>>
    /\ feat_pc = "loaded"
    /\ IdleParse
    /\ hospital_mapping = <<>>
    /\ IdleResolve
    /\ IdleMaster

\* json_files = sorted([f for f in os.listdir(dir) if f.endswith('.json')])
list_json_files ==
    /\ load_pc = "start"
    /\ json_files' = Sorted({f \in DOMAIN migueldata_dir : EndsWith(f, DOT_JSON)})
    /\ load_pc' = "reading"
    /\ UNCHANGED <<migueldata_dir, file_i, chunk_i, all_records, historical_df, RestOfLoad>>

\* one pass of 'for json_str in json_objects': a chunk that raises inside
\* the try is skipped by the bare except
read_chunk ==
    /\ load_pc = "reading"
    /\ file_i <= Len(json_files)
    /\ chunk_i <= Len(migueldata_dir[json_files[file_i]])
    /\ all_records' = all_records \o ChunkRecords(migueldata_dir[json_files[file_i]][chunk_i])
    /\ chunk_i' = chunk_i + 1
    /\ UNCHANGED <<migueldata_dir, json_files, file_i, load_pc, historical_df, RestOfLoad>>

\* the end of a file's chunks: the next pass of 'for i, filename'
next_file ==
    /\ load_pc = "reading"
    /\ file_i <= Len(json_files)
    /\ chunk_i > Len(migueldata_dir[json_files[file_i]])
    /\ file_i' = file_i + 1
    /\ chunk_i' = 1
    /\ UNCHANGED <<migueldata_dir, json_files, all_records, load_pc, historical_df, RestOfLoad>>

\* lines 86-102 on all_records, when they raise:
\*   pd.DataFrame([]) has no 'timestamp' column (KeyError);
\*   pd.to_datetime raises on a value it cannot parse
FrameRaises(records) ==
    \/ Len(records) = 0
    \/ \E k \in 1..Len(records) : ~records[k].timestamp.parses

\* lines 86-102 when they do not raise: the frame with timestamp converted
\* and wait_time_minutes parsed
Frame(records) ==
    [k \in 1..Len(records) |->
        [timestamp |-> records[k].timestamp.instant,
         hospital_name |-> records[k].hospital_name,
         wait_time_str |-> records[k].wait_time_str,
         wait_time_minutes |-> ParseWaitTimeEngineer(records[k].wait_time_str)]]

\* after the last file: build the frame, convert, parse, store
build_frame ==
    /\ load_pc = "reading"
    /\ file_i > Len(json_files)
    /\ IF FrameRaises(all_records)
       THEN load_pc' = "raised" /\ UNCHANGED historical_df
       ELSE load_pc' = "done" /\ historical_df' = Frame(all_records)
    /\ UNCHANGED <<migueldata_dir, json_files, file_i, chunk_i, all_records, RestOfLoad>>

NextLoad == list_json_files \/ read_chunk \/ next_file \/ build_frame

SpecLoad == InitLoad /\ [][NextLoad]_vars

\* a chunk C5 calls well-formed: valid JSON with a 'timestamp' that is a
\* valid instant and a 'data' mapping
WellFormed(chunk) == chunk.kind = "object" /\ chunk.timestamp.parses

\* the (timestamp, hospital, raw wait time) observations of one chunk
Observations(chunk) ==
    [k \in 1..Len(chunk.data) |->
        <<chunk.timestamp.instant, chunk.data[k][1], chunk.data[k][2]>>]

\* the observations of the well-formed chunks, in lexicographic file order
\* and then in-file order
WellFormedObservations ==
    LET files == Sorted({f \in DOMAIN migueldata_dir : EndsWith(f, DOT_JSON)})
    IN  Flatten([i \in 1..Len(files) |->
            Flatten([c \in 1..Len(migueldata_dir[files[i]]) |->
                IF WellFormed(migueldata_dir[files[i]][c])
                THEN Observations(migueldata_dir[files[i]][c])
                ELSE <<>>])])

\* the rows of the loaded frame as (timestamp, hospital, raw wait time)
LoadedObservations ==
    [k \in 1..Len(historical_df) |->
        <<historical_df[k].timestamp, historical_df[k].hospital_name,
          historical_df[k].wait_time_str>>]

\* a load that completes returns the observations of every chunk that got
\* through the try block, in file order and in-file order
LoadOutputWhenDone == load_pc = "done" => LoadedObservations = WellFormedObservations

\* C5: load_historical_data never aborts because of a bad record: whatever
\* chunks are malformed (invalid JSON, no 'timestamp', no 'data', 'data' not a
\* mapping, a timestamp that is no valid instant), a directory that holds at
\* least one observation of a well-formed chunk is loaded to the end, and the
\* output is exactly the observations of the well-formed chunks, in
\* lexicographic file order and then in-file order.
C5_LoadSkipsBadRecords ==
    Len(WellFormedObservations) > 0 =>
        /\ load_pc # "raised"
        /\ load_pc = "done" => LoadedObservations = WellFormedObservations

-----------------------------------------------------------------------------
(* Series statistics as pandas computes them: missing values are skipped *)

\* the values of a column that are not NaN, in column order
Present(xs) ==
    LET kept == SelectSeq(xs, LAMBDA x : ~IsNone(x))
    IN  [i \in 1..Len(kept) |-> Val(kept[i])]

\* the column with NaN read as 0
PresentFillZero(xs) == [i \in 1..Len(xs) |-> IF IsNone(xs[i]) THEN 0 ELSE Val(xs[i])]

\* mean(): NaN when no value is present
SeriesMean(xs) ==
    LET v == Present(xs)
    IN  IF Len(v) = 0 THEN None ELSE Some(Rat(SumSeq(v), Len(v)))

\* min() and max()
SeriesMin(xs) ==
    LET v == SortInts(Present(xs)) IN IF Len(v) = 0 THEN None ELSE Some(v[1])
SeriesMax(xs) ==
    LET v == SortInts(Present(xs)) IN IF Len(v) = 0 THEN None ELSE Some(v[Len(v)])

\* quantile(q) for q = quarters / 4, linear interpolation: the position
\* (n - 1) * q between two neighbours of the sorted values
SeriesQuantile(xs, quarters) ==
    LET v == SortInts(Present(xs))
        n == Len(v)
        lo == ((n - 1) * quarters) \div 4
        frac == ((n - 1) * quarters) % 4
    IN  IF n = 0 THEN None
        ELSE IF frac = 0 THEN Some(Rat(v[lo + 1], 1))
        ELSE Some(Rat(4 * v[lo + 1] + frac * (v[lo + 2] - v[lo + 1]), 4))

\* median(): the 0.5 quantile
SeriesMedian(xs) == SeriesQuantile(xs, 2)

\* var(ddof=1), the square of std(): NaN with fewer than two values
SeriesVar(xs) ==
    LET v == Present(xs)
        n == Len(v)
        squares == [i \in 1..n |-> v[i] * v[i]]
    IN  IF n < 2 THEN None
        ELSE Some(Rat(n * SumSeq(squares) - SumSeq(v) * SumSeq(v), n * (n - 1)))

Column(rows, field) == [i \in 1..Len(rows) |-> rows[i][field]]

-----------------------------------------------------------------------------
(* The frame between the stages of run_full_pipeline *)

\* characters of hospital names, for the sort by name
NameOrd(h) == IF h = "A" THEN 65 ELSE 66

\* row a sorts before row b under sort_values(['hospital_name', 'timestamp'])
RowBefore(a, b) ==
    \/ NameOrd(a.hospital_name) < NameOrd(b.hospital_name)
    \/ a.hospital_name = b.hospital_name /\ a.timestamp < b.timestamp

\* df.sort_values(['hospital_name', 'timestamp']): a lexsort, which keeps
\* rows with equal keys in their order
RECURSIVE SortByHospitalTime(_)
SortByHospitalTime(rows) ==
    IF Len(rows) = 0 THEN <<>>
    ELSE LET rest == SortByHospitalTime(Tail(rows))
             before == SelectSeq(rest, LAMBDA r : RowBefore(r, rows[1]))
             after == SelectSeq(rest, LAMBDA r : ~RowBefore(r, rows[1]))
         IN  before \o <<rows[1]>> \o after

\* df['hospital_name'].unique(): the names in order of first appearance
RECURSIVE UniqueNames(_)
UniqueNames(rows) ==
    IF Len(rows) = 0 THEN <<>>
    ELSE <<rows[1].hospital_name>>
             \o UniqueNames(SelectSeq(Tail(rows),
                                      LAMBDA r : r.hospital_name # rows[1].hospital_name))

\* the rows of every hospital, whatever the name asked for
HospitalRowsUngrouped(rows, hospital) == rows

\* df[df['hospital_name'] == hospital]
HospitalRows(rows, hospital) == SelectSeq(rows, LAMBDA r : r.hospital_name = hospital)

\* the per-hospital loop of a stage: sort, transform each hospital's rows,
\* concatenate
PerHospital(rows, Transform(_)) ==
    LET df == SortByHospitalTime(rows)
        names == UniqueNames(df)
    IN  Flatten([k \in 1..Len(names) |-> Transform(HospitalRows(df, names[k]))])

-----------------------------------------------------------------------------
(* create_rolling_features *)

\* the first row of the window of row i: rolling(window='<W>H') on the
\* timestamp index is closed on the right only, so the window of row i starts
\* at the first row later than timestamp[i] - W and ends at row i itself
WindowStartClosedBoth(group, i, hours) ==
    CHOOSE j \in 1..i :
        /\ group[j].timestamp >= group[i].timestamp - hours
        /\ \A k \in 1..(j - 1) : ~(group[k].timestamp >= group[i].timestamp - hours)

WindowStart(group, i, hours) ==
    CHOOSE j \in 1..i :
        /\ group[j].timestamp > group[i].timestamp - hours
        /\ \A k \in 1..(j - 1) : ~(group[k].timestamp > group[i].timestamp - hours)

\* rolling(window, min_periods=1).mean() at row i
RollingMean(group, i, hours) ==
    SeriesMean(Column(SubSeq(group, WindowStart(group, i, hours), i), "wait_time_minutes"))

\* the four columns, window_hours = [1, 6, 24, 168]
WithRolling(group) ==
    [i \in 1..Len(group) |->
        group[i] @@ [wait_time_rolling_1h |-> RollingMean(group, i, 1),
                     wait_time_rolling_6h |-> RollingMean(group, i, 6),
                     wait_time_rolling_24h |-> RollingMean(group, i, 24),
                     wait_time_rolling_168h |-> RollingMean(group, i, 168)]]

-----------------------------------------------------------------------------
(* create_trend_features *)

\* the difference taken against the row periods hours earlier
DiffElapsed(group, i, periods) ==
    LET at == {j \in 1..i : group[j].timestamp = group[i].timestamp - periods}
    IN  IF at = {} \/ IsNone(group[i].wait_time_minutes) THEN None
        ELSE LET j == CHOOSE k \in at : \A l \in at : l <= k
             IN  IF IsNone(group[j].wait_time_minutes) THEN None
                 ELSE Some(Val(group[i].wait_time_minutes) - Val(group[j].wait_time_minutes))

\* Series.diff(periods) at row i: NaN when there is no row i - periods or
\* when either value is NaN
Diff(group, i, periods) ==
    IF i <= periods THEN None
    ELSE IF IsNone(group[i].wait_time_minutes)
              \/ IsNone(group[i - periods].wait_time_minutes) THEN None
    ELSE Some(Val(group[i].wait_time_minutes) - Val(group[i - periods].wait_time_minutes))

\* the sign with NaN read as no change
SignFillZero(x) ==
    IF IsNone(x) THEN Some(0)
    ELSE IF Val(x) > 0 THEN Some(1) ELSE IF Val(x) < 0 THEN Some(-1) ELSE Some(0)

\* np.sign: NaN for NaN
Sign(x) ==
    IF IsNone(x) THEN None
    ELSE IF Val(x) > 0 THEN Some(1) ELSE IF Val(x) < 0 THEN Some(-1) ELSE Some(0)

\* rolling(window=6, min_periods=1).std() at row i, held as its square:
\* the sample variance of the values among the last six rows
Volatility(group, i) ==
    SeriesVar(Column(SubSeq(group, IF i > 5 THEN i - 5 ELSE 1, i), "wait_time_minutes"))

\* the trend columns, followed by a dropna() on trend_1h
WithTrendsDropna(group) ==
    SelectSeq([i \in 1..Len(group) |->
                  group[i] @@ [trend_1h |-> Diff(group, i, 1),
                               trend_3h |-> Diff(group, i, 3),
                               trend_direction |-> Sign(Diff(group, i, 1)),
                               volatility_6h |-> Volatility(group, i)]],
              LAMBDA r : ~IsNone(r.trend_1h))

WithTrends(group) ==
    [i \in 1..Len(group) |->
        group[i] @@ [trend_1h |-> Diff(group, i, 1),
                     trend_3h |-> Diff(group, i, 3),
                     trend_direction |-> Sign(Diff(group, i, 1)),
                     volatility_6h |-> Volatility(group, i)]]

-----------------------------------------------------------------------------
(* create_historical_benchmarks *)

\* the wait_time_minutes column taken over the whole frame
GroupValuesUngrouped(df, hospital) == Column(df, "wait_time_minutes")

\* the wait_time_minutes of one group of df.groupby('hospital_name')
GroupValues(df, hospital) == Column(HospitalRows(df, hospital), "wait_time_minutes")

\* minutes - historical_mean: NaN when either is
VsAvg(minutes, mean) ==
    IF IsNone(minutes) \/ IsNone(mean) THEN None
    ELSE Some(Rat(Val(minutes) * Val(mean)[2] - Val(mean)[1], Val(mean)[2]))

\* (minutes / historical_max) * 100: NaN when either is; a zero maximum
\* gives the float inf (or NaN for 0 / 0), held as the fraction <<1, 0>>
\* (<<0, 0>>)
PctOfMax(minutes, max) ==
    IF IsNone(minutes) \/ IsNone(max) THEN None
    ELSE IF Val(max) = 0 THEN Some(<<IF Val(minutes) = 0 THEN 0 ELSE 1, 0>>)
    ELSE Some(Rat(100 * Val(minutes), Val(max)))

\* minutes > q and minutes < q: False when either is NaN
Above(minutes, q) == ~IsNone(minutes) /\ ~IsNone(q) /\ RatLess(Val(q), <<Val(minutes), 1>>)
Below(minutes, q) == ~IsNone(minutes) /\ ~IsNone(q) /\ RatLess(<<Val(minutes), 1>>, Val(q))

\* hospital_stats merged back on hospital_name (a left merge on a unique
\* key: the rows and their order are kept), then the relative metrics;
\* historical_std is held as its square
WithBenchmarks(df) ==
    [i \in 1..Len(df) |->
        LET values == GroupValues(df, df[i].hospital_name)
            minutes == df[i].wait_time_minutes
        IN  df[i] @@ [historical_mean |-> SeriesMean(values),
                      historical_median |-> SeriesMedian(values),
                      historical_std |-> SeriesVar(values),
                      historical_min |-> SeriesMin(values),
                      historical_max |-> SeriesMax(values),
                      historical_25th |-> SeriesQuantile(values, 1),
                      historical_75th |-> SeriesQuantile(values, 3),
                      wait_time_vs_avg |-> VsAvg(minutes, SeriesMean(values)),
                      wait_time_pct_of_max |-> PctOfMax(minutes, SeriesMax(values)),
                      is_above_75th_percentile |-> Above(minutes, SeriesQuantile(values, 3)),
                      is_below_25th_percentile |-> Below(minutes, SeriesQuantile(values, 1))]]

-----------------------------------------------------------------------------
(* create_temporal_patterns *)

\* A timestamp is a count of hours since Monday 2024-01-01 00:00.
Hour(t) == t % 24
DayOfWeek(t) == (t \div 24) % 7
DayOfMonth(t) == (t \div 24) + 1
WeekOfYear(t) == (t \div 168) + 1

BINS == <<0, 6, 12, 18, 24>>
LABELS == <<"night", "morning", "afternoon", "evening">>

\* pd.cut(x, bins=BINS, labels=LABELS, include_lowest=True): the bins are
\* closed on the right (right=True is the default) and the first one also
\* holds its left edge; NaN outside the bins
Cut(x) ==
    LET hits == {k \in 1..Len(LABELS) :
                    /\ BINS[k] < x \/ (k = 1 /\ x = BINS[1])
                    /\ x <= BINS[k + 1]}
    IN  IF hits = {} THEN None ELSE Some(LABELS[CHOOSE k \in hits : TRUE])

\* Series.between(lo, hi): both ends included
Between(x, lo, hi) == lo <= x /\ x <= hi

WithTemporal(df) ==
    [i \in 1..Len(df) |->
        LET hour == Hour(df[i].timestamp)
            day_of_week == DayOfWeek(df[i].timestamp)
        IN  df[i] @@ [hour |-> hour,
                      day_of_week |-> day_of_week,
                      day_of_month |-> DayOfMonth(df[i].timestamp),
                      week_of_year |-> WeekOfYear(df[i].timestamp),
                      is_weekend |-> day_of_week \in {5, 6},
                      is_weekday |-> ~(day_of_week \in {5, 6}),
                      time_of_day |-> Cut(hour),
                      is_peak_hour |-> Between(hour, 18, 23),
                      is_off_peak |-> Between(hour, 0, 5),
                      is_business_hours |-> Between(hour, 9, 17)]]

-----------------------------------------------------------------------------
(* run_full_pipeline after load_historical_data: the four feature stages *)

MaxRecords == 3

\* hour 168 and the timestamps an hour, six hours and a week before it: the
\* open ends of its 1h, 6h and 168h windows
FeedTimestamps == {0, 162, 167, 168}
FeedHospitals == {"A", "B"}

\* an unavailable wait, 30 minutes, and the range that averages to 64.5
FeedTexts == {NOT_AVAILABLE, Fmt(0, 30), Fmt(1, 0) \o SP_TO_SP \o Fmt(1, 9)}

\* a row of the frame load_historical_data returns
ObservationRows ==
    {[timestamp |-> t, hospital_name |-> h, wait_time_str |-> Some(s),
      wait_time_minutes |-> ParseWaitTimeEngineer(Some(s))] :
        t \in FeedTimestamps, h \in FeedHospitals, s \in FeedTexts}

\* the frames of up to MaxRecords rows, in any order; at least one row has a
\* value, so that the wait_time_minutes column is a float column
LoadedFrames ==
    {f \in UNION {[1..n -> ObservationRows] : n \in 1..MaxRecords} :
        \E i \in 1..Len(f) : ~IsNone(f[i].wait_time_minutes)}

MaxSeries == 4

\* the texts of the longer frames: the feed's texts and '0 hr 0 min'
DailyTexts == FeedTexts \cup {Fmt(0, 0)}

\* what each parser makes of each of these texts
EngineerParsed == [s \in DailyTexts |-> ParseWaitTimeEngineer(Some(s))]
CleanerParsed == [s \in DailyTexts |-> ParseWaitTimeCleaner(Some(s))]

\* a longer frame of one observation a day, the days rising or falling down
\* the frame: with up to MaxSeries rows a row can have three rows of its
\* hospital before it. InitFeatures takes the ones whose first row is
\* hospital A; LoadedFrames has the frames that begin with either hospital
DailyFrame(n, names, texts, rising) ==
    [i \in 1..n |->
        [timestamp |-> 24 * (IF rising THEN i - 1 ELSE n - i),
         hospital_name |-> names[i], wait_time_str |-> Some(texts[i]),
         wait_time_minutes |-> EngineerParsed[texts[i]]]]

InitFeatures ==
    /\ \/ historical_df \in LoadedFrames
       \/ \E n \in 1..MaxSeries, rising \in BOOLEAN :
            \E names \in [1..n -> FeedHospitals], texts \in [1..n -> DailyTexts] :
                /\ names[1] = "A"
                /\ historical_df = DailyFrame(n, names, texts, rising)
                /\ \E i \in 1..n : ~IsNone(EngineerParsed[texts[i]])
    /\ feat_pc = "loaded"
    /\ IdleParse
    /\ hospital_mapping = <<>>
    /\ IdleResolve
    /\ IdleLoad
    /\ IdleMaster

create_rolling_features ==
    /\ feat_pc = "loaded"
    /\ historical_df' = PerHospital(historical_df, WithRolling)
    /\ feat_pc' = "rolling"
    /\ UNCHANGED RestOfFeatures

create_trend_features ==
    /\ feat_pc = "rolling"
    /\ historical_df' = PerHospital(historical_df, WithTrends)
    /\ feat_pc' = "trends"
    /\ UNCHANGED RestOfFeatures

create_historical_benchmarks ==
    /\ feat_pc = "trends"
    /\ historical_df' = WithBenchmarks(historical_df)
    /\ feat_pc' = "benchmarks"
    /\ UNCHANGED RestOfFeatures

create_temporal_patterns ==
    /\ feat_pc = "benchmarks"
    /\ historical_df' = WithTemporal(historical_df)
    /\ feat_pc' = "temporal"
    /\ UNCHANGED RestOfFeatures

NextFeatures ==
    \/ create_rolling_features
    \/ create_trend_features
    \/ create_historical_benchmarks
    \/ create_temporal_patterns

SpecFeatures == InitFeatures /\ [][NextFeatures]_vars

\* one observation at every hour of the first week
MaxHourStamp == 167

WeekFrames ==
    {<<[timestamp |-> t, hospital_name |-> "A", wait_time_str |-> Some(Fmt(0, 30)),
        wait_time_minutes |-> ParseWaitTimeEngineer(Some(Fmt(0, 30)))]>> : t \in 0..MaxHourStamp}

InitTemporal ==
    /\ historical_df \in WeekFrames
    /\ feat_pc = "loaded"
    /\ IdleParse
    /\ hospital_mapping = <<>>
    /\ IdleResolve
    /\ IdleLoad
    /\ IdleMaster

SpecTemporal == InitTemporal /\ [][NextFeatures]_vars

-----------------------------------------------------------------------------
(* Statistics stated directly on the rows of the frame *)

Rows == 1..Len(historical_df)
MinutesAt(j) == Val(historical_df[j].wait_time_minutes)
HasValue(j) == ~IsNone(historical_df[j].wait_time_minutes)
SameHospital(i, j) == historical_df[i].hospital_name = historical_df[j].hospital_name

\* the sum of the minutes of the rows J
RECURSIVE SumOfRows(_)
SumOfRows(J) ==
    IF J = {} THEN 0
    ELSE LET j == CHOOSE k \in J : TRUE IN MinutesAt(j) + SumOfRows(J \ {j})

\* the mean of the minutes of the rows J, all with a value
MeanOfRows(J) == IF J = {} THEN None ELSE Some(Rat(SumOfRows(J), Cardinality(J)))

\* the k-th smallest of the minutes of the rows J, counted with repeats
OrderStat(J, k) ==
    CHOOSE v \in {MinutesAt(j) : j \in J} :
        /\ Cardinality({j \in J : MinutesAt(j) < v}) < k
        /\ k <= Cardinality({j \in J : MinutesAt(j) <= v})

\* the median: the middle value, or the mean of the two middle values
MedianOfRows(J) ==
    LET n == Cardinality(J)
    IN  IF n = 0 THEN None
        ELSE IF n % 2 = 1 THEN Some(Rat(OrderStat(J, (n + 1) \div 2), 1))
        ELSE Some(Rat(OrderStat(J, n \div 2) + OrderStat(J, (n \div 2) + 1), 2))

\* the percentile p (25 or 75) by linear interpolation between the two
\* order statistics around rank 1 + (n - 1) * p / 100
PercentileOfRows(J, p) ==
    LET n == Cardinality(J)
        below == 1 + (((n - 1) * p) \div 100)
        part == ((n - 1) * p) % 100
    IN  IF n = 0 THEN None
        ELSE IF part = 0 THEN Some(Rat(OrderStat(J, below), 1))
        ELSE Some(Rat(100 * OrderStat(J, below)
                         + part * (OrderStat(J, below + 1) - OrderStat(J, below)), 100))

RollingColumn(row, hours) ==
    CASE hours = 1 -> row.wait_time_rolling_1h
      [] hours = 6 -> row.wait_time_rolling_6h
      [] hours = 24 -> row.wait_time_rolling_24h
      [] hours = 168 -> row.wait_time_rolling_168h

WindowHours == {1, 6, 24, 168}
RollingDone == feat_pc \in {"rolling", "trends", "benchmarks", "temporal"}
TrendsDone == feat_pc \in {"trends", "benchmarks", "temporal"}
BenchmarksDone == feat_pc \in {"benchmarks", "temporal"}

\* C6 (as amended): in the frame sorted by hospital and timestamp (rows of
\* equal timestamp in load order), wait_time_rolling_W of the row at time t
\* is the mean of the non-None minutes of the rows of the same hospital that
\* are not after it in the frame and whose timestamp lies in (t - W, t]:
\* open on the left, so a row exactly W earlier is not counted; it is None
\* when no such row has a value.
C6_RollingHalfOpen ==
    RollingDone =>
        \A i \in Rows, w \in WindowHours :
            RollingColumn(historical_df[i], w) =
                MeanOfRows({j \in Rows :
                    /\ SameHospital(i, j) /\ HasValue(j) /\ j <= i
                    /\ historical_df[i].timestamp - w < historical_df[j].timestamp
                    /\ historical_df[j].timestamp <= historical_df[i].timestamp})

\* C6 as first stated: wait_time_rolling_W of the row at time t is the mean
\* of the non-None minutes of all rows of the same hospital whose timestamp
\* lies in [t - W, t], both ends included.
C6_AsStated ==
    RollingDone =>
        \A i \in Rows, w \in WindowHours :
            LET window == {j \in Rows :
                    /\ SameHospital(i, j) /\ HasValue(j)
                    /\ historical_df[i].timestamp - w <= historical_df[j].timestamp
                    /\ historical_df[j].timestamp <= historical_df[i].timestamp}
            IN  window # {} => RollingColumn(historical_df[i], w) = MeanOfRows(window)

\* a hospital has a value at hour 0 and another at hour 168, exactly a week
\* later, and the later row's 168-hour mean is its own value alone
C6_Witness ==
    /\ feat_pc = "rolling"
    /\ \E i \in Rows, j \in Rows :
           /\ SameHospital(i, j) /\ HasValue(i) /\ HasValue(j)
           /\ historical_df[j].timestamp = 0 /\ historical_df[i].timestamp = 168
           /\ MinutesAt(i) # MinutesAt(j)
           /\ historical_df[i].wait_time_rolling_168h = Some(<<MinutesAt(i), 1>>)
           /\ historical_df[i].wait_time_rolling_1h = Some(<<MinutesAt(i), 1>>)

\* the rows of the hospital of row i that have a value
SeriesOf(i) == {j \in Rows : SameHospital(i, j) /\ HasValue(j)}

\* C7: the historical mean, median, min, max and 25th/75th percentiles on a
\* row are the statistics of all non-None minutes of its hospital's whole
\* series (None rows left out, not counted as zero), whatever the order of
\* the rows and the same on every row of the hospital.
C7_Benchmarks ==
    BenchmarksDone =>
        \A i \in Rows :
            LET J == SeriesOf(i)
                row == historical_df[i]
            IN  /\ row.historical_mean = MeanOfRows(J)
                /\ row.historical_median = MedianOfRows(J)
                /\ row.historical_25th = PercentileOfRows(J, 25)
                /\ row.historical_75th = PercentileOfRows(J, 75)
                /\ IF J = {} THEN IsNone(row.historical_min) /\ IsNone(row.historical_max)
                   ELSE /\ \E j \in J : row.historical_min = Some(MinutesAt(j))
                        /\ \E j \in J : row.historical_max = Some(MinutesAt(j))
                        /\ \A j \in J : Val(row.historical_min) <= MinutesAt(j)
                        /\ \A j \in J : MinutesAt(j) <= Val(row.historical_max)
                /\ \A k \in Rows : SameHospital(i, k) =>
                       /\ historical_df[k].historical_mean = row.historical_mean
                       /\ historical_df[k].historical_median = row.historical_median

\* a hospital with the values 30 and 64.5 and a row without a value, beside
\* another hospital: its mean is 47.25 (189/2 half minutes), not 31.5
C7_Witness ==
    /\ feat_pc = "benchmarks"
    /\ Len(historical_df) = 3
    /\ \E i \in Rows, j \in Rows, k \in Rows :
           /\ SameHospital(i, j) /\ ~SameHospital(i, k)
           /\ HasValue(i) /\ MinutesAt(i) = 60
           /\ HasValue(j) /\ MinutesAt(j) = 129
           /\ historical_df[i].historical_mean = Some(<<189, 2>>)
           /\ historical_df[i].historical_25th = Some(<<309, 4>>)
           /\ historical_df[i].historical_max = Some(129)

\* C8: on every row after create_trend_features, trend_direction is None
\* exactly when trend_1h is None, and otherwise it is the sign of trend_1h,
\* one of -1, 0, 1.
C8_TrendDirection ==
    TrendsDone =>
        \A i \in Rows :
            LET row == historical_df[i]
            IN  /\ IsNone(row.trend_direction) <=> IsNone(row.trend_1h)
                /\ ~IsNone(row.trend_1h) =>
                       /\ Val(row.trend_direction) \in {-1, 0, 1}
                       /\ Val(row.trend_direction) = 1 <=> Val(row.trend_1h) > 0
                       /\ Val(row.trend_direction) = -1 <=> Val(row.trend_1h) < 0
                       /\ Val(row.trend_direction) = 0 <=> Val(row.trend_1h) = 0

\* a series whose second row has no value and whose third row follows it:
\* both have trend_1h None and trend_direction None
C8_Witness ==
    /\ feat_pc = "trends"
    /\ Len(historical_df) = 3
    /\ SameHospital(1, 2) /\ SameHospital(2, 3)
    /\ HasValue(1) /\ ~HasValue(2) /\ HasValue(3)
    /\ \A i \in Rows : IsNone(historical_df[i].trend_1h)
                          /\ IsNone(historical_df[i].trend_direction)

\* a falling wait: trend_1h is negative and trend_direction is -1
C8_WitnessFalling ==
    /\ feat_pc = "trends"
    /\ \E i \in Rows : /\ ~IsNone(historical_df[i].trend_1h)
                        /\ Val(historical_df[i].trend_1h) < 0
                        /\ historical_df[i].trend_direction = Some(-1)

\* the category of the half-open bins [0,6) [6,12) [12,18) [18,24)
HalfOpenBin(hour) ==
    IF hour < 6 THEN "night" ELSE IF hour < 12 THEN "morning"
    ELSE IF hour < 18 THEN "afternoon" ELSE "evening"

\* C10: for every hour 0..23, time_of_day is night for 0 <= h < 6, morning
\* for 6 <= h < 12, afternoon for 12 <= h < 18 and evening for 18 <= h < 24.
C10_TimeOfDay ==
    feat_pc = "temporal" =>
        \A i \in Rows :
            historical_df[i].time_of_day = Some(HalfOpenBin(historical_df[i].hour))

\* what the code does: every hour gets one category, and it is the category
\* of the half-open bins except at hours 6, 12 and 18
TimeOfDayAsCoded ==
    feat_pc = "temporal" =>
        \A i \in Rows :
            LET row == historical_df[i]
            IN  /\ ~IsNone(row.time_of_day)
                /\ row.hour \notin {6, 12, 18} => row.time_of_day = Some(HalfOpenBin(row.hour))
                /\ row.hour = 6 => row.time_of_day = Some("night")
                /\ row.hour = 12 => row.time_of_day = Some("morning")
                /\ row.hour = 18 => row.time_of_day = Some("afternoon")

-----------------------------------------------------------------------------
(* TriageLinkDataCleaner.create_master_dataset *)

MaxSnapshotRows == 3

\* the Excel file: rows of Timestamp, 'Hospital Name' and 'Wait Time'; the
\* timestamps are whole hours since Monday 2024-01-01 00:00, one per row,
\* rising or falling down the file
SnapshotNames == {ST_X, UNKNOWN_CLINIC}
SnapshotTexts == {Fmt(1, 30), NOT_AVAILABLE, Fmt(2, 0)}

SnapshotRow(t, name, text) ==
    [Timestamp |-> t] @@ ("Hospital Name" :> Some(name)) @@ ("Wait Time" :> Some(text))

SnapshotFiles ==
    UNION {{[i \in 1..n |-> SnapshotRow(IF rising THEN i - 1 ELSE n - i, names[i], texts[i])] :
               names \in [1..n -> SnapshotNames], texts \in [1..n -> SnapshotTexts],
               rising \in BOOLEAN} : n \in 1..MaxSnapshotRows}

\* the mapping tables whose hlwiw_name column repeats no name
MasterMappings ==
    {t \in MappingTables :
        /\ \A i \in 1..Len(t) : IsNone(t[i].er_watch_name) /\ IsNone(t[i].pediatric_dataset_name)
        /\ \A i \in 1..Len(t), j \in 1..Len(t) :
               i # j /\ ~IsNone(t[i].hlwiw_name) => t[i].hlwiw_name # t[j].hlwiw_name}

\* the table without one of its columns
WithoutColumn(t, column) ==
    [i \in 1..Len(t) |-> [c \in DOMAIN t[i] \ {column} |-> t[i][c]]]

\* pd.read_csv(hospital_mapping_file): a mapping file as above, or one that
\* has no region column
MappingFiles ==
    MasterMappings \cup {WithoutColumn(t, "region") : t \in {m \in MasterMappings : Len(m) > 0}}

\* the columns of the table (a table with no rows here has them all)
MappingColumns(mapping) ==
    IF Len(mapping) = 0
    THEN {"hospital_id", "region", "has_pediatric_er", "is_trauma_centre", "tier"}
    ELSE DOMAIN mapping[1]

\* self.hospital_mapping[['hospital_id', 'region', 'has_pediatric_er',
\* 'is_trauma_centre', 'tier']] raises KeyError when one of them is missing
MergeRaises(mapping) ==
    ~({"hospital_id", "region", "has_pediatric_er", "is_trauma_centre", "tier"}
          \subseteq MappingColumns(mapping))

Strategies == {"flag", "drop", "mean", "forward_fill"}

\* a float cell: NaN, or the exact value as a fraction of half minutes
Float(x) == IF IsNone(x) THEN None ELSE Some(Rat(Val(x), 1))

RatAdd(p, q) == Rat(p[1] * q[2] + q[1] * p[2], p[2] * q[2])

RECURSIVE RatSum(_)
RatSum(ps) == IF Len(ps) = 0 THEN <<0, 1>> ELSE RatAdd(ps[1], RatSum(Tail(ps)))

\* load_wait_time_data after pd.read_excel: wait_time_minutes, hospital_id,
\* standard_name and data_available are added to every row
LoadWaitTimeData(mapping, file) ==
    [i \in 1..Len(file) |->
        LET minutes == Float(ParseWaitTimeCleaner(file[i]["Wait Time"]))
            norm == NormalizeHospitalName(mapping, file[i]["Hospital Name"], "hlwiw")
        IN  file[i] @@ [wait_time_minutes |-> minutes,
                        hospital_id |-> norm[1],
                        standard_name |-> norm[2],
                        data_available |-> ~IsNone(minutes)]]

\* the four attribute columns of a mapping row, and of no mapping row
Attributes(m) ==
    [region |-> m.region, has_pediatric_er |-> Some(m.has_pediatric_er),
     is_trauma_centre |-> Some(m.is_trauma_centre), tier |-> m.tier]
NullAttributes ==
    [region |-> None, has_pediatric_er |-> None, is_trauma_centre |-> None, tier |-> None]

MappingMatches(row, mapping) ==
    SelectSeq(mapping, LAMBDA m : row.hospital_id = Some(m.hospital_id))

\* the same merge with how='inner'
MergeInner(wait_time_df, mapping) ==
    Flatten([i \in 1..Len(wait_time_df) |->
        LET matches == MappingMatches(wait_time_df[i], mapping)
        IN  [k \in 1..Len(matches) |-> wait_time_df[i] @@ Attributes(matches[k])]])

\* wait_time_df.merge(mapping[[...]], on='hospital_id', how='left'): every
\* left row once per mapping row of its hospital_id, and once with null
\* attributes when there is none
MergeHospitalAttributes(wait_time_df, mapping) ==
    Flatten([i \in 1..Len(wait_time_df) |->
        LET matches == MappingMatches(wait_time_df[i], mapping)
        IN  IF Len(matches) = 0 THEN <<wait_time_df[i] @@ NullAttributes>>
            ELSE [k \in 1..Len(matches) |-> wait_time_df[i] @@ Attributes(matches[k])]])

DayName(d) ==
    <<"Monday", "Tuesday", "Wednesday", "Thursday", "Friday", "Saturday", "Sunday">>[d + 1]
Month(t) == IF t < 31 * 24 THEN 1 ELSE 2
Year(t) == 2024

AddTemporalFeatures(df) ==
    [i \in 1..Len(df) |->
        LET t == df[i].Timestamp
        IN  df[i] @@ [timestamp |-> t,
                      hour_of_day |-> Hour(t),
                      day_of_week |-> DayOfWeek(t),
                      is_weekend |-> DayOfWeek(t) \in {5, 6},
                      is_night_shift |-> Between(Hour(t), 18, 23) \/ Between(Hour(t), 0, 6),
                      day_name |-> DayName(DayOfWeek(t)),
                      month |-> Month(t),
                      year |-> Year(t)]]

\* the row with another wait_time_minutes
WithMinutes(row, minutes) == [row EXCEPT !.wait_time_minutes = minutes]

\* groupby('hospital_id')[...].transform('mean') at row i: the mean of the
\* values of the rows of the same hospital_id; groupby leaves out the rows
\* whose key is null, and they get NaN
HospitalMean(df, i) ==
    IF IsNone(df[i].hospital_id) THEN None
    ELSE LET group == SelectSeq(df, LAMBDA r : r.hospital_id = df[i].hospital_id
                                               /\ ~IsNone(r.wait_time_minutes))
             total == RatSum([k \in 1..Len(group) |-> Val(group[k].wait_time_minutes)])
         IN  IF Len(group) = 0 THEN None
             ELSE Some(Rat(total[1], total[2] * Len(group)))

\* row a sorts before row b under sort_values(['hospital_id', 'timestamp']):
\* null keys sort last
IdTimeBefore(a, b) ==
    \/ ~IsNone(a.hospital_id) /\ IsNone(b.hospital_id)
    \/ ~IsNone(a.hospital_id) /\ ~IsNone(b.hospital_id)
           /\ Val(a.hospital_id) < Val(b.hospital_id)
    \/ a.hospital_id = b.hospital_id /\ a.timestamp < b.timestamp

RECURSIVE SortByIdTime(_)
SortByIdTime(rows) ==
    IF Len(rows) = 0 THEN <<>>
    ELSE LET rest == SortByIdTime(Tail(rows))
             before == SelectSeq(rest, LAMBDA r : IdTimeBefore(r, rows[1]))
             after == SelectSeq(rest, LAMBDA r : ~IdTimeBefore(r, rows[1]))
         IN  before \o <<rows[1]>> \o after

\* groupby('hospital_id')[...].fillna(method='ffill') at row i of the sorted
\* frame: the last value at or before it in its hospital_id group; the rows
\* whose key is null are in no group and get NaN
ForwardFilled(df, i) ==
    IF IsNone(df[i].hospital_id) THEN None
    ELSE LET earlier == {j \in 1..i : /\ df[j].hospital_id = df[i].hospital_id
                                      /\ ~IsNone(df[j].wait_time_minutes)}
         IN  IF earlier = {} THEN None
             ELSE df[CHOOSE j \in earlier : \A k \in earlier : k <= j].wait_time_minutes

HandleMissingValues(df, strategy) ==
    CASE strategy = "flag" -> df
      [] strategy = "drop" -> SelectSeq(df, LAMBDA r : ~IsNone(r.wait_time_minutes))
      [] strategy = "mean" ->
            [i \in 1..Len(df) |->
                IF IsNone(df[i].wait_time_minutes)
                THEN WithMinutes(df[i], HospitalMean(df, i)) ELSE df[i]]
      [] strategy = "forward_fill" ->
            LET sorted == SortByIdTime(df)
            IN  [i \in 1..Len(sorted) |-> WithMinutes(sorted[i], ForwardFilled(sorted, i))]

\* pd.get_dummies(df['region'], prefix='region'): one column per region that
\* occurs, in sorted order
RegionColumn(region) ==
    IF region = "Calgary" THEN "region_Calgary" ELSE "region_Edmonton"
RegionColumns == <<"region_Calgary", "region_Edmonton">>
RegionsIn(df) == {Val(df[i].region) : i \in {k \in 1..Len(df) : ~IsNone(df[k].region)}}

\* encode_categorical_features: the region dummies; the boolean columns
\* mapped onto themselves; tier NaN filled with 0
EncodeCategoricalFeatures(df) ==
    [i \in 1..Len(df) |->
        [tier |-> IF IsNone(df[i].tier) THEN 0 ELSE Val(df[i].tier)]
            @@ df[i]
            @@ [c \in {RegionColumn(r) : r \in RegionsIn(df)} |->
                    \E r \in RegionsIn(df) : c = RegionColumn(r) /\ df[i].region = Some(r)]]

master_columns ==
    <<"hospital_id", "standard_name", "region", "tier",
      "has_pediatric_er", "is_trauma_centre",
      "timestamp", "hour_of_day", "day_of_week", "is_weekend", "is_night_shift",
      "wait_time_minutes", "data_available",
      "day_name", "month", "year">>

\* [col for col in master_columns + region_cols if col in df.columns]
AvailableColumns(columns) ==
    SelectSeq(master_columns \o RegionColumns, LAMBDA col : col \in columns)

\* df[available_columns]
SelectColumns(df) ==
    [i \in 1..Len(df) |->
        LET available_columns == AvailableColumns(DOMAIN df[i])
        IN  [col \in {available_columns[k] : k \in 1..Len(available_columns)} |-> df[i][col]]]

InitMaster ==
    /\ hospital_mapping \in MappingFiles
    /\ wait_time_file \in SnapshotFiles
    /\ missing_strategy = "flag"
    /\ df_master = <<>>
    /\ master_pc = "start"
    /\ IdleParse
    /\ IdleResolve
    /\ IdleLoad
    /\ historical_df = <<>>
    /\ feat_pc = "loaded"

\* Step 1
load_wait_time_data ==
    /\ master_pc = "start"
    /\ df_master' = LoadWaitTimeData(hospital_mapping, wait_time_file)
    /\ master_pc' = "loaded"
    /\ UNCHANGED <<wait_time_file, missing_strategy, RestOfMaster>>

\* Step 2; the KeyError of the column selection leaves create_master_dataset
merge_hospital_attributes ==
    /\ master_pc = "loaded"
    /\ IF MergeRaises(hospital_mapping)
       THEN /\ master_pc' = "raised"
            /\ UNCHANGED df_master
       ELSE /\ df_master' = MergeHospitalAttributes(df_master, hospital_mapping)
            /\ master_pc' = "merged"
    /\ UNCHANGED <<wait_time_file, missing_strategy, RestOfMaster>>

\* Step 3
add_temporal_features ==
    /\ master_pc = "merged"
    /\ df_master' = AddTemporalFeatures(df_master)
    /\ master_pc' = "temporal"
    /\ UNCHANGED <<wait_time_file, missing_strategy, RestOfMaster>>

\* Step 4, where the missing_strategy argument is first read
handle_missing_values ==
    /\ master_pc = "temporal"
    /\ \E strategy \in Strategies :
           /\ missing_strategy' = strategy
           /\ df_master' = HandleMissingValues(df_master, strategy)
    /\ master_pc' = "handled"
    /\ UNCHANGED <<wait_time_file, RestOfMaster>>

\* Step 5
encode_categorical_features ==
    /\ master_pc = "handled"
    /\ df_master' = EncodeCategoricalFeatures(df_master)
    /\ master_pc' = "encoded"
    /\ UNCHANGED <<wait_time_file, missing_strategy, RestOfMaster>>

\* Steps 6 to 8: the columns are selected and df_master is saved and returned
create_master_dataset ==
    /\ master_pc = "encoded"
    /\ df_master' = SelectColumns(df_master)
    /\ master_pc' = "returned"
    /\ UNCHANGED <<wait_time_file, missing_strategy, RestOfMaster>>

NextMaster ==
    \/ load_wait_time_data
    \/ merge_hospital_attributes
    \/ add_temporal_features
    \/ handle_missing_values
    \/ encode_categorical_features
    \/ create_master_dataset

SpecMaster == InitMaster /\ [][NextMaster]_vars

\* the snapshot rows and the mapping of the end-to-end scenario
ScenarioFile ==
    <<SnapshotRow(0, ST_X, Fmt(1, 30)), SnapshotRow(1, ST_X, NOT_AVAILABLE),
      SnapshotRow(2, ST_X, Fmt(2, 0))>>
ScenarioMapping == Len(hospital_mapping) >= 1 /\ hospital_mapping[1].hlwiw_name = Some(ST_X)

ReturnedUnderFlag == master_pc = "returned" /\ missing_strategy = "flag"

C9_WitnessUnknown ==
    /\ ReturnedUnderFlag
    /\ Len(df_master) = 2
    /\ wait_time_file[1]["Hospital Name"] = Some(UNKNOWN_CLINIC)
    /\ IsNone(df_master[1].hospital_id)
    /\ df_master[1].standard_name = Some(UNKNOWN_CLINIC)
    /\ IsNone(df_master[1].region) /\ df_master[1].tier = 0
    /\ df_master[2].hospital_id = Some(1)

\* the mapping table has no region column
RegionAbsent == "region" \notin MappingColumns(hospital_mapping)

\* C11: when the optional column region is absent from the mapping table,
\* create_master_dataset does not raise, and the table it returns has no
\* region column and the remaining master columns in their fixed order.
C11_OptionalColumnAbsent ==
    RegionAbsent =>
        /\ master_pc # "raised"
        /\ master_pc = "returned" =>
               \A i \in 1..Len(df_master) :
                   AvailableColumns(DOMAIN df_master[i])
                       = SelectSeq(master_columns, LAMBDA col : col # "region")

\* a table without region reaches the merge and the run ends there
C11_RaisedAtMerge ==
    /\ RegionAbsent
    /\ master_pc = "raised"
    /\ Len(df_master) = Len(wait_time_file)

\* the rows of the hospital of row i that come before it in the frame
Prior(i) == {j \in Rows : SameHospital(i, j) /\ j < i}

\* the row periods positions before row i in its hospital's series
Lagged(i, periods) ==
    CHOOSE j \in Prior(i) : Cardinality({k \in Prior(i) : k > j}) = periods - 1

TrendColumn(row, periods) == IF periods = 1 THEN row.trend_1h ELSE row.trend_3h

TO4_EXAMPLE == Fmt(2, 44) \o SP_TO \o Str(4) \o SP \o HR \o SP \o Str(25) \o SP \o MIN

\* C13: a range whose separator lacks a surrounding space ('A toB', 'Ato B')
\* or is in capitals is parsed as a range by both parsers: the mean of the
\* two sides when both parse, None when one does not, and 214.5 (429 half
\* minutes) for '2 hr 44 min to4 hr 25 min'.
C13_LooseSeparator ==
    /\ \A a \in {Fmt(2, 44), Fmt(1, 0)},
          b \in {Str(4) \o SP \o HR \o SP \o Str(25) \o SP \o MIN, SOON},
          sep \in LooseSeparators \cup Separators :
            wait_time_str = Some(a \o sep \o b) =>
                /\ "cleaner" \in parsed =>
                       cleaner_minutes = RangeExpected(ParseWaitTimeCleaner(Some(a)),
                                                       ParseWaitTimeCleaner(Some(b)))
                /\ "engineer" \in parsed =>
                       engineer_minutes = RangeExpected(ParseWaitTimeEngineer(Some(a)),
                                                        ParseWaitTimeEngineer(Some(b)))
    /\ wait_time_str = Some(TO4_EXAMPLE) =>
            /\ "cleaner" \in parsed => cleaner_minutes = Some(429)
            /\ "engineer" \in parsed => engineer_minutes = Some(429)

\* what the code does with '2 hr 44 min to4 hr 25 min': the feature
\* engineer's parser gives 214.5, the cleaner's gives 164, the left side alone
To4AsCoded ==
    wait_time_str = Some(TO4_EXAMPLE) =>
        /\ "cleaner" \in parsed => cleaner_minutes = Some(Minutes(164))
        /\ "engineer" \in parsed => engineer_minutes = Some(429)

\* the observations of the frame as load_historical_data returned them,
\* less the fields the stages have added
Observed(rows) ==
    [i \in 1..Len(rows) |->
        [timestamp |-> rows[i].timestamp, hospital_name |-> rows[i].hospital_name,
         wait_time_str |-> rows[i].wait_time_str,
         wait_time_minutes |-> rows[i].wait_time_minutes]]

\* the rows of one hospital, in the order of the frame
OnlyHospital(rows, hospital) == SelectSeq(rows, LAMBDA r : r.hospital_name = hospital)

\* what the stages run so far make of a loaded frame
StagesOf(pc, loaded) ==
    LET rolling == PerHospital(loaded, WithRolling)
        trends == PerHospital(rolling, WithTrends)
        benchmarks == WithBenchmarks(trends)
    IN  CASE pc = "loaded" -> loaded
          [] pc = "rolling" -> rolling
          [] pc = "trends" -> trends
          [] pc = "benchmarks" -> benchmarks
          [] pc = "temporal" -> WithTemporal(benchmarks)

\* C14: the records of a hospital carry, after every stage, exactly the
\* fields the same stages give them when the input holds that hospital's
\* observations alone: two inputs with the same observations of hospital A
\* give every record of A the same rolling, trend, volatility and benchmark
\* fields, whatever the other hospitals' observations are.
C14_NoCrossHospital ==
    \A hospital \in FeedHospitals :
        OnlyHospital(historical_df, hospital)
            = StagesOf(feat_pc, OnlyHospital(Observed(historical_df), hospital))

\* hospital A between two records of hospital B with other values: A's
\* benchmark is its own value, and it has no trend
C14_Witness ==
    /\ feat_pc = "benchmarks"
    /\ Len(historical_df) = 3
    /\ historical_df[1].hospital_name = "A" /\ HasValue(1) /\ MinutesAt(1) = 60
    /\ historical_df[2].hospital_name = "B" /\ HasValue(2) /\ MinutesAt(2) = 129
    /\ historical_df[3].hospital_name = "B" /\ HasValue(3) /\ MinutesAt(3) = 129
    /\ historical_df[1].timestamp = 168 /\ historical_df[2].timestamp = 167
    /\ historical_df[1].historical_mean = Some(<<60, 1>>)
    /\ historical_df[1].wait_time_rolling_168h = Some(<<60, 1>>)
    /\ IsNone(historical_df[1].trend_1h)
    /\ IsNone(historical_df[1].volatility_6h)

\* the minutes load_wait_time_data parsed for row i of df_master, read again
\* from the row's 'Wait Time' cell
ParsedMinutes(i) == Float(ParseWaitTimeCleaner(df_master[i]["Wait Time"]))

\* the rows of the hospital_id of row i that are earlier in time and had a value
EarlierWithValue(i) ==
    {j \in 1..Len(df_master) :
        /\ df_master[j].hospital_id = df_master[i].hospital_id
        /\ df_master[j].timestamp < df_master[i].timestamp
        /\ ~IsNone(ParsedMinutes(j))}

\* the parsed minutes of the latest of them, None when there is none
LastKnown(i) ==
    IF EarlierWithValue(i) = {} THEN None
    ELSE ParsedMinutes(CHOOSE j \in EarlierWithValue(i) :
            \A k \in EarlierWithValue(i) : df_master[k].timestamp <= df_master[j].timestamp)

ForwardFillHandled == master_pc = "handled" /\ missing_strategy = "forward_fill"

\* C15: after handle_missing_values under 'forward_fill' the rows of each
\* hospital_id are in time order; a row that had no minutes and has a
\* hospital_id takes the minutes of the latest earlier row of that
\* hospital_id that had a value, and stays None when there is none; a row
\* that had a value keeps it, whether its hospital_id is None or not.
C15_ForwardFill ==
    ForwardFillHandled =>
        \A i \in 1..Len(df_master) :
            /\ \A j \in 1..(i - 1) :
                   df_master[j].hospital_id = df_master[i].hospital_id =>
                       df_master[j].timestamp <= df_master[i].timestamp
            /\ ~IsNone(ParsedMinutes(i)) =>
                   df_master[i].wait_time_minutes = ParsedMinutes(i)
            /\ IsNone(ParsedMinutes(i)) /\ ~IsNone(df_master[i].hospital_id) =>
                   df_master[i].wait_time_minutes = LastKnown(i)

\* what the code does: the claim for the rows that have a hospital_id, and
\* every row whose hospital_id is None ends with minutes None
ForwardFillAsCoded ==
    ForwardFillHandled =>
        /\ Len(df_master) = Len(wait_time_file)
        /\ \A i \in 1..Len(df_master) :
               df_master[i].wait_time_minutes =
                   IF IsNone(df_master[i].hospital_id) THEN None
                   ELSE IF ~IsNone(ParsedMinutes(i)) THEN ParsedMinutes(i)
                   ELSE LastKnown(i)

\* the row cut down to the given fields
Restricted(row, fields) == [f \in fields |-> row[f]]

\* C16: every stage of run_full_pipeline only adds fields: the frame keeps
\* its number of records, and every record of the frame before the stage,
\* with all the fields it had (timestamp, hospital_name, wait_time_minutes
\* and the fields of the earlier stages), is found as many times among the
\* records after the stage; so nothing is added, dropped or altered from
\* load_historical_data on.
C16_StagesOnlyAdd ==
    [][/\ Len(historical_df') = Len(historical_df)
       /\ \A i \in 1..Len(historical_df) :
              LET row == historical_df[i]
              IN  /\ \A j \in 1..Len(historical_df') : DOMAIN row \subseteq DOMAIN historical_df'[j]
                  /\ Cardinality({j \in 1..Len(historical_df') :
                          Restricted(historical_df'[j], DOMAIN row) = row})
                       = Cardinality({j \in 1..Len(historical_df) : historical_df[j] = row})]_vars

\* all four stages have run on a frame loaded out of order, with a record
\* without a value: the three records are there, sorted, with the rolling
\* and trend fields of the earlier stages beside the temporal ones
C16_Witness ==
    /\ feat_pc = "temporal"
    /\ Len(historical_df) = 3
    /\ SameHospital(1, 2) /\ ~SameHospital(2, 3)
    /\ historical_df[1].timestamp = 162 /\ historical_df[2].timestamp = 168
    /\ HasValue(1) /\ MinutesAt(1) = 129 /\ HasValue(2) /\ MinutesAt(2) = 60
    /\ ~HasValue(3)
    /\ historical_df[2].wait_time_rolling_24h = Some(<<189, 2>>)
    /\ historical_df[2].trend_1h = Some(-69)
    /\ historical_df[2].historical_max = Some(129)
    /\ historical_df[2].hour = 0

\* C17: in the table create_master_dataset returns, under every strategy,
\* data_available is True on a row exactly when its wait_time_minutes is
\* not None.
C17_FlagMatchesMinutes ==
    master_pc = "returned" =>
        \A i \in 1..Len(df_master) :
            df_master[i].data_available <=> ~IsNone(df_master[i].wait_time_minutes)

\* what the code does: the equivalence holds under 'flag' and 'drop'; under
\* 'mean' and 'forward_fill' data_available still tells whether the row had
\* a value when it was loaded
DataAvailableAsCoded ==
    master_pc = "returned" =>
        /\ missing_strategy \in {"flag", "drop"} =>
               \A i \in 1..Len(df_master) :
                   df_master[i].data_available <=> ~IsNone(df_master[i].wait_time_minutes)
        /\ missing_strategy = "drop" => \A i \in 1..Len(df_master) : df_master[i].data_available
        /\ missing_strategy = "mean" =>
               \A i \in 1..Len(df_master) :
                   df_master[i].data_available => ~IsNone(df_master[i].wait_time_minutes)

\* C18: for every argument, null or a string, parse_wait_time and
\* _parse_wait_time return the same result.
C18_ParsersAgree == BothParsed => cleaner_minutes = engineer_minutes

\* where the two parsers do agree: on every argument that holds no 'to'
\* other than the separator ' to ' written with both its spaces
ParsersAgreeOnTightRanges ==
    (BothParsed /\ ~IsNone(wait_time_str)
        /\ Replace(Lower(Val(wait_time_str)), SP_TO_SP, <<>>)
               = Replace(Replace(Lower(Val(wait_time_str)), SP_TO_SP, <<>>), TO, <<>>))
    => cleaner_minutes = engineer_minutes

\* C19: every minutes value the parsers give, in the feature engineer's
\* frame and for the same text in the cleaner, is greater than zero; once
\* the benchmarks are there, a hospital with a value has historical_max > 0,
\* and on every record with a value historical_min <= minutes <=
\* historical_max and wait_time_pct_of_max is a quotient by a non-zero
\* number, greater than 0 and at most 100.
C19_PositiveMinutes ==
    \A i \in Rows :
        LET row == historical_df[i]
        IN  /\ HasValue(i) => MinutesAt(i) > 0
            /\ LET cleaned == CleanerParsed[Val(row.wait_time_str)]
               IN  ~IsNone(cleaned) => Val(cleaned) > 0
            /\ BenchmarksDone /\ SeriesOf(i) # {} =>
                   /\ ~IsNone(row.historical_max) /\ Val(row.historical_max) > 0
                   /\ HasValue(i) =>
                          /\ Val(row.historical_min) <= MinutesAt(i)
                          /\ MinutesAt(i) <= Val(row.historical_max)
                          /\ ~IsNone(row.wait_time_pct_of_max)
                          /\ Val(row.wait_time_pct_of_max)[2] > 0
                          /\ Val(row.wait_time_pct_of_max)[1] > 0
                          /\ Val(row.wait_time_pct_of_max)[1]
                                 <= 100 * Val(row.wait_time_pct_of_max)[2]

\* a series of '0 hr 0 min', 30 minutes and 64.5 minutes: the zero total is
\* None, the maximum is 64.5 and the 30-minute record is at 2000/43 percent
C19_Witness ==
    /\ feat_pc = "benchmarks"
    /\ Len(historical_df) = 3
    /\ SameHospital(1, 2) /\ SameHospital(2, 3)
    /\ historical_df[1].wait_time_str = Some(Fmt(0, 0)) /\ ~HasValue(1)
    /\ HasValue(2) /\ MinutesAt(2) = 60
    /\ HasValue(3) /\ MinutesAt(3) = 129
    /\ historical_df[2].historical_max = Some(129)
    /\ historical_df[2].wait_time_pct_of_max = Some(<<2000, 43>>)
    /\ historical_df[3].wait_time_pct_of_max = Some(<<100, 1>>)
    /\ IsNone(historical_df[1].wait_time_pct_of_max)

====
